---- MODULE Spec2Model ----
(***************************************************************************)
(* Model of the DC Happy Hour Tracker (src/tracker.py).                    *)
(*                                                                         *)
(* Python str values that the code inspects character by character         *)
(* (names, day-rule texts, time-range texts) are sequences of              *)
(* one-character strings; str values the modelled code only stores         *)
(* (neighborhood, offers) are TLA+ strings.  A rating r is the integer     *)
(* 10*r (4.7 is 47).  A Python bool result is "True" / "False"; a call     *)
(* that raises has the exception's name as its result.                     *)
(***************************************************************************)
EXTENDS Integers, Sequences, FiniteSets, TLC

VARIABLES
    phase,      \* process: "new" (before HappyHourTracker()), "ready", "crashed"
    file,       \* the data file: [kind: "absent" | "invalid" | "json", data]
    venues,     \* HappyHourTracker.venues
    call,       \* the last store call: [op, name, rating, ret]
    listed,     \* the list the last get_venues_by_rating returned
    ops,        \* number of store calls made so far, all runs together
    v,          \* the HappyHourVenue whose predicate is exercised
    res         \* its last method call: [fn, day, time, ret, start, end]

vars == <<phase, file, venues, call, listed, ops, v, res>>

storeVars == <<phase, file, venues, call, listed, ops>>
venueVars == <<v, res>>

----------------------------------------------------------------------------
(* Python str helpers, on sequences of characters                          *)

UpperChars == <<"A","B","C","D","E","F","G","H","I","J","K","L","M","N","O","P","Q","R","S","T","U","V","W","X","Y","Z">>
LowerChars == <<"a","b","c","d","e","f","g","h","i","j","k","l","m","n","o","p","q","r","s","t","u","v","w","x","y","z">>
DigitChars == <<"0","1","2","3","4","5","6","7","8","9">>

\* str.lower() on one ASCII character
LowerChar(c) ==
    IF \E i \in 1..Len(UpperChars) : UpperChars[i] = c
    THEN LowerChars[CHOOSE i \in 1..Len(UpperChars) : UpperChars[i] = c]
    ELSE c

\* str.lower()
Lower(s) == [i \in 1..Len(s) |-> LowerChar(s[i])]

\* str.upper() on the matched AM/PM group
UpperChar(c) ==
    IF \E i \in 1..Len(LowerChars) : LowerChars[i] = c
    THEN UpperChars[CHOOSE i \in 1..Len(LowerChars) : LowerChars[i] = c]
    ELSE c

Upper(s) == [i \in 1..Len(s) |-> UpperChar(s[i])]

\* `sub in s`
Contains(s, sub) ==
    \E i \in 1..(Len(s) - Len(sub) + 1) : SubSeq(s, i, i + Len(sub) - 1) = sub

IsDigit(c) == \E i \in 1..Len(DigitChars) : DigitChars[i] = c

\* int() of one digit
DigitVal(c) == (CHOOSE i \in 1..Len(DigitChars) : DigitChars[i] = c) - 1

\* int() of a group of digits
RECURSIVE IntOf(_)
IntOf(ds) ==
    IF Len(ds) = 0 THEN 0
    ELSE 10 * IntOf(SubSeq(ds, 1, Len(ds) - 1)) + DigitVal(ds[Len(ds)])

\* \s of the pattern (ASCII)
IsSpace(c) == c \in {" ", "\t"}

----------------------------------------------------------------------------
(* HappyHourVenue                                                          *)

\* HappyHourVenue.__init__
HappyHourVenue(name, neighborhood, happy_hour_days, happy_hour_times, rating, offers) ==
    [name |-> name, neighborhood |-> neighborhood,
     happy_hour_days |-> happy_hour_days, happy_hour_times |-> happy_hour_times,
     rating |-> rating, offers |-> offers]

\* a Python bool
Bool(b) == IF b THEN "True" ELSE "False"

\* day_mapping of _is_valid_day, in the dict's order
day_mapping ==
    << <<<<"m","o","n">>, 0>>, <<<<"t","u","e">>, 1>>, <<<<"w","e","d">>, 2>>, <<<<"t","h","u">>, 3>>,
       <<<<"f","r","i">>, 4>>, <<<<"s","a","t">>, 5>>, <<<<"s","u","n">>, 6>> >>

\* the loop over day_mapping.items(), from its i-th item on
RECURSIVE ScanDayMapping(_, _, _)
ScanDayMapping(days_str, day, i) ==
    IF i > Len(day_mapping) THEN "False"
    ELSE IF Contains(days_str, day_mapping[i][1]) /\ day_mapping[i][2] = day
         THEN "True"
         ELSE ScanDayMapping(days_str, day, i + 1)

\* a day check that looks for the single days before the range patterns
_is_valid_day_scan_first(self, day) ==
    LET days_str == Lower(self.happy_hour_days) IN
    IF ScanDayMapping(days_str, day, 1) = "True" THEN "True"
    ELSE IF Contains(days_str, <<"m","o","n","-","f","r","i">>) \/ Contains(days_str, <<"m","o","n","d","a","y","-","f","r","i","d","a","y">>)
    THEN Bool(0 <= day /\ day <= 4)
    ELSE IF Contains(days_str, <<"d","a","i","l","y">>) \/ Contains(days_str, <<"e","v","e","r","y"," ","d","a","y">>)
    THEN "True"
    ELSE Bool(Contains(days_str, <<"w","e","e","k","e","n","d">>) /\ day \in {5, 6})

\* HappyHourVenue._is_valid_day
_is_valid_day(self, day) ==
    LET days_str == Lower(self.happy_hour_days) IN
    IF Contains(days_str, <<"m","o","n","-","f","r","i">>) \/ Contains(days_str, <<"m","o","n","d","a","y","-","f","r","i","d","a","y">>)
    THEN Bool(0 <= day /\ day <= 4)
    ELSE IF Contains(days_str, <<"d","a","i","l","y">>) \/ Contains(days_str, <<"e","v","e","r","y"," ","d","a","y">>)
    THEN "True"
    ELSE IF Contains(days_str, <<"w","e","e","k","e","n","d">>)
    THEN Bool(day \in {5, 6})
    ELSE ScanDayMapping(days_str, day, 1)

\* position after a greedy \s* that starts at position i
RECURSIVE SkipSpaces(_, _)
SkipSpaces(s, i) ==
    IF i <= Len(s) /\ IsSpace(s[i]) THEN SkipSpaces(s, i + 1) ELSE i

NoMatch == [ok |-> FALSE, groups |-> <<>>]
NoHalf == [ok |-> FALSE, hour |-> <<>>, min |-> <<>>, period |-> <<>>, next |-> 0]

\* (\d{1,2}):(\d{2})\s*(AM|PM) with the hour at i..c-1, ":" at c and the
\* period at p; re.IGNORECASE lets the period match in either case
HalfAt(s, i, c, p) ==
    IF /\ c + 2 <= Len(s)
       /\ \A k \in i..(c - 1) : IsDigit(s[k])
       /\ s[c] = ":"
       /\ IsDigit(s[c + 1]) /\ IsDigit(s[c + 2])
       /\ p + 1 <= Len(s)
       /\ Upper(SubSeq(s, p, p + 1)) \in {<<"A","M">>, <<"P","M">>}
    THEN [ok |-> TRUE, hour |-> SubSeq(s, i, c - 1), min |-> SubSeq(s, c + 1, c + 2),
          period |-> SubSeq(s, p, p + 1), next |-> p + 2]
    ELSE NoHalf

\* (\d{1,2}):(\d{2})\s*(AM|PM) at position i, the hour taking n digits
MatchHalf(s, i, n) == HalfAt(s, i, i + n, SkipSpaces(s, i + n + 3))

\* the six groups of a match whose halves are a and b
Groups(a, b) ==
    IF b.ok
    THEN [ok |-> TRUE, groups |-> <<a.hour, a.min, a.period, b.hour, b.min, b.period>>]
    ELSE NoMatch

\* "-" at position q, then \s* and the second half with an hour of n2 digits
FromHyphen(s, a, q, n2) ==
    IF q <= Len(s) /\ s[q] = "-"
    THEN Groups(a, MatchHalf(s, SkipSpaces(s, q + 1), n2))
    ELSE NoMatch

\* what follows the first half a: \s*-\s* and the second half
AfterHalf(s, a, n2) ==
    IF a.ok THEN FromHyphen(s, a, SkipSpaces(s, a.next), n2) ELSE NoMatch

\* the whole pattern at position i, with n1 and n2 digits for the two hours
MatchWith(s, i, n1, n2) == AfterHalf(s, MatchHalf(s, i, n1), n2)

\* the digit counts of the two \d{1,2}, in the order the greedy matcher
\* tries them
Widths == << <<2, 2>>, <<2, 1>>, <<1, 2>>, <<1, 1>> >>

\* the places <<i, k>> where the pattern matches: at position i with the
\* k-th digit counts
Hits(s) ==
    {h \in (1..Len(s)) \X (1..Len(Widths)) :
        MatchWith(s, h[1], Widths[h[2]][1], Widths[h[2]][2]).ok}

\* h is the match the scan reaches before g: further left, or at the same
\* position with digit counts tried earlier
Sooner(h, g) == h[1] < g[1] \/ (h[1] = g[1] /\ h[2] <= g[2])

\* the match at the place h
MatchOf(s, h) == MatchWith(s, h[1], Widths[h[2]][1], Widths[h[2]][2])

\* the first of the matches at the places hits, or none
Leftmost(s, hits) ==
    IF hits = {} THEN NoMatch
    ELSE MatchOf(s, CHOOSE h \in hits : \A g \in hits : Sooner(h, g))

\* re.search(pattern, s, re.IGNORECASE)
ReSearch(s) == Leftmost(s, Hits(s))

\* a conversion that adds 12 to every PM hour
To24HourNoNoon(hour, period) ==
    IF period = <<"P","M">> THEN hour + 12
    ELSE IF period = <<"A","M">> /\ hour = 12 THEN 0
    ELSE hour

\* the 24-hour format step of _parse_happy_hour_times
To24Hour(hour, period) ==
    IF period = <<"P","M">> /\ hour # 12 THEN hour + 12
    ELSE IF period = <<"A","M">> /\ hour = 12 THEN 0
    ELSE hour

\* datetime.time(hour, minute) raises ValueError outside 0..23 and 0..59
TimeRaises(hour, minute) == ~(hour \in 0..23 /\ minute \in 0..59)

\* the pair of times _parse_happy_hour_times returns (None is <<>>), or the
\* ValueError that time() raises
Times(start_hour, start_min, end_hour, end_min) ==
    IF TimeRaises(start_hour, start_min) \/ TimeRaises(end_hour, end_min)
    THEN [kind |-> "ValueError", start |-> <<>>, end |-> <<>>]
    ELSE [kind |-> "times", start |-> <<start_hour, start_min, 0>>,
          end |-> <<end_hour, end_min, 0>>]

\* _parse_happy_hour_times from the result of re.search on
ParseMatch(match) ==
    IF ~match.ok
    THEN [kind |-> "None", start |-> <<>>, end |-> <<>>]
    ELSE Times(To24Hour(IntOf(match.groups[1]), Upper(match.groups[3])),
               IntOf(match.groups[2]),
               To24Hour(IntOf(match.groups[4]), Upper(match.groups[6])),
               IntOf(match.groups[5]))

\* HappyHourVenue._parse_happy_hour_times
_parse_happy_hour_times(self) == ParseMatch(ReSearch(self.happy_hour_times))

\* order of datetime.time values <<hour, minute, second>>
TimeLeq(a, b) ==
    a[1] * 3600 + a[2] * 60 + a[3] <= b[1] * 3600 + b[2] * 60 + b[3]

\* is_open_now from the parsed times on
WithinHours(parsed, current_time) ==
    IF parsed.kind = "ValueError" THEN "ValueError"
    ELSE IF parsed.start # <<>> /\ parsed.end # <<>>
    THEN Bool(TimeLeq(parsed.start, current_time) /\ TimeLeq(current_time, parsed.end))
    ELSE "False"

\* HappyHourVenue.is_open_now, with now = [weekday, time] read from the clock
is_open_now(self, now) ==
    IF _is_valid_day(self, now.weekday) # "True" THEN "False"
    ELSE WithinHours(_parse_happy_hour_times(self), now.time)

----------------------------------------------------------------------------
(* Inputs of the venue predicate                                           *)

\* largest hour number written in a generated time-range text
MaxHour == 13

\* str(n) for 0 <= n <= 99
Digits(n) ==
    IF n < 10 THEN <<DigitChars[n + 1]>>
    ELSE <<DigitChars[(n \div 10) + 1], DigitChars[(n % 10) + 1]>>

\* happy_hour_days values
DayTexts ==
    { <<"M","o","n","-","F","r","i">>, <<"M","o","n","-","F","r","i",","," ","S","a","t">>, <<"M","O","N","D","A","Y","-","F","R","I","D","A","Y">>, <<"D","a","i","l","y">>, <<"E","v","e","r","y"," ","D","a","y">>,
      <<"W","e","e","k","e","n","d","s">>, <<"W","e","d","-","S","u","n">>, <<"M","o","n","-","S","u","n">>, <<"S","a","t",","," ","S","u","n">>, <<"T","u","e","/","T","h","u">>,
      <<"D","a","i","l","y",","," ","M","o","n","-","F","r","i">>, <<"W","e","e","k","e","n","d"," ","d","a","i","l","y">>, <<"W","e","e","k","e","n","d",","," ","M","o","n">>, <<"C","l","o","s","e","d">> }

\* happy_hour_times values: "<h>:<mm> <AM|PM> - <end>" for every hour number
\* up to MaxHour, and texts given literally
TimeTexts ==
    { Digits(h) \o <<":">> \o mm \o <<" ">> \o p \o <<" ","-"," ">> \o e :
        h \in 0..MaxHour, mm \in {<<"0","0">>, <<"5","9">>, <<"6","0">>}, p \in {<<"A","M">>, <<"P","M">>},
        e \in {<<"7",":","0","0"," ","P","M">>} }
    \cup
    { <<"4",":","0","0"," ","P","M"," ","-"," ","7",":","0","0"," ","P","M">>, <<"1","2",":","0","0"," ","A","M"," ","-"," ","1",":","0","0"," ","A","M">>, <<"C","a","l","l"," ","f","o","r"," ","h","o","u","r","s">>,
      <<"1","3",":","0","0"," ","P","M"," ","-"," ","2",":","0","0"," ","P","M">>, <<"4",":","6","0"," ","P","M"," ","-"," ","7",":","0","0"," ","P","M">>, <<"4",":","0","0","P","M","-","7",":","0","0","P","M">>,
      <<"4",":","0","0"," ","p","m"," ","-"," ","7",":","0","0"," ","p","m">>, <<"D","a","i","l","y"," ","4",":","0","0"," ","P","M"," ","-"," ","7",":","0","0"," ","P","M","!">>, <<"4"," ","P","M"," ","-"," ","7"," ","P","M">>,
      <<"4",":","0","0"," ","-"," ","7",":","0","0"," ","P","M">>, <<"1","2","3",":","0","0"," ","A","M"," ","-"," ","1",":","0","0"," ","P","M">>, <<"3",":","0","0"," ","P","M"," ","-"," ","9",":","0","0"," ","P","M">>,
      <<"4",":","0","0"," ","P","M"," ","-"," ","7",":","6","0"," ","P","M">>, <<"1","1",":","0","0"," ","P","M"," ","-"," ","2",":","0","0"," ","A","M">>, <<"1","2",":","0","0"," ","P","M"," ","-"," ","1","2",":","0","0"," ","A","M">>,
      <<"4",":","0"," ","P","M"," ","-"," ","7",":","0","0"," ","P","M">>, <<>> }

\* datetime.now(): weekday() and time() of the reference instant
Instants ==
    [weekday : 0..6,
     time : { <<0, 0, 0>>, <<1, 0, 1>>, <<15, 59, 59>>, <<16, 0, 0>>,
              <<19, 0, 0>>, <<19, 0, 1>> }]

NoVenue == HappyHourVenue(<<>>, "", <<>>, <<>>, 0, "")
NoRes == [fn |-> "none", day |-> -1, time |-> <<>>, ret |-> "none",
          start |-> <<>>, end |-> <<>>]

\* a venue as HappyHourVenue(...) builds it from the given texts
InitVenue ==
    /\ v \in { HappyHourVenue(<<"V","e","n","u","e">>, "Downtown", d, t, 40, "$5 beer") :
                 d \in DayTexts, t \in TimeTexts }
    /\ res = NoRes

\* v._is_valid_day(day)
CallIsValidDay(day) ==
    /\ res = NoRes
    /\ res' = [fn |-> "_is_valid_day", day |-> day, time |-> <<>>,
               ret |-> _is_valid_day(v, day), start |-> <<>>, end |-> <<>>]
    /\ UNCHANGED <<v, storeVars>>

\* the record of a _parse_happy_hour_times call that gave r
Parsed(r) ==
    [fn |-> "_parse_happy_hour_times", day |-> -1, time |-> <<>>,
     ret |-> r.kind, start |-> r.start, end |-> r.end]

\* v._parse_happy_hour_times()
CallParseHappyHourTimes ==
    /\ res = NoRes
    /\ res' = Parsed(_parse_happy_hour_times(v))
    /\ UNCHANGED <<v, storeVars>>

\* v.is_open_now() at the instant the clock shows
CallIsOpenNow(now) ==
    /\ res = NoRes
    /\ res' = [fn |-> "is_open_now", day |-> now.weekday, time |-> now.time,
               ret |-> is_open_now(v, now), start |-> <<>>, end |-> <<>>]
    /\ UNCHANGED <<v, storeVars>>


----------------------------------------------------------------------------
(* HappyHourTracker: persistence                                           *)

\* the keys of a venue's dictionary
Keys == {"name", "neighborhood", "happy_hour_days", "happy_hour_times",
         "rating", "offers"}

\* HappyHourVenue.to_dict
to_dict(self) ==
    [k \in Keys |->
        CASE k = "name" -> self.name
          [] k = "neighborhood" -> self.neighborhood
          [] k = "happy_hour_days" -> self.happy_hour_days
          [] k = "happy_hour_times" -> self.happy_hour_times
          [] k = "rating" -> self.rating
          [] k = "offers" -> self.offers]

\* HappyHourVenue.from_dict is a plain function of two parameters (cls, data);
\* args are the positional arguments of a call HappyHourVenue.from_dict(...).
\* A call with one argument raises TypeError, data[key] of an absent key
\* raises KeyError.
from_dict(args) ==
    IF Len(args) # 2
    THEN [raises |-> "TypeError", venue |-> NoVenue]
    ELSE LET data == args[2] IN
         IF ~(Keys \subseteq DOMAIN data)
         THEN [raises |-> "KeyError", venue |-> NoVenue]
         ELSE [raises |-> "none",
               venue |-> HappyHourVenue(data["name"], data["neighborhood"],
                                        data["happy_hour_days"], data["happy_hour_times"],
                                        data["rating"], data["offers"])]

\* the file after json.dump of the dictionaries of vs
Saved(vs) == [kind |-> "json", data |-> [i \in 1..Len(vs) |-> to_dict(vs[i])]]

\* what open(.., 'w') and json.dump can do: succeed, raise before the file is
\* opened, or raise after it was truncated
WriteOutcomes == {"written", "open raises", "write raises"}

\* HappyHourTracker.save_data: the file it leaves; every exception is caught
save_data(vs, f, outcome) ==
    CASE outcome = "written" -> Saved(vs)
      [] outcome = "open raises" -> f
      [] outcome = "write raises" -> [kind |-> "invalid", data |-> <<>>]

\* HappyHourTracker._create_sample_data
sample_venues ==
    << HappyHourVenue(<<"C","a","s","t","a","s"," ","R","u","m"," ","B","a","r">>, "Foggy Bottom", <<"M","o","n","-","F","r","i">>,
                      <<"5",":","0","0"," ","P","M"," ","-"," ","7",":","0","0"," ","P","M">>, 45,
                      "$5 beer, $10 mojitos & frozens, $40 pitchers"),
       HappyHourVenue(<<"G","e","o","r","g","e","t","o","w","n"," ","P","i","a","n","o"," ","B","a","r">>, "Georgetown", <<"W","e","d","-","S","u","n">>,
                      <<"5",":","0","0"," ","P","M"," ","-"," ","7",":","0","0"," ","P","M">>, 42,
                      "Half price appetizers, $5 draft beer"),
       HappyHourVenue(<<"B","a","r"," ","C","h","i","n","o","i","s">>, "Chinatown", <<"M","o","n","-","S","u","n">>,
                      <<"5",":","0","0"," ","P","M"," ","-"," ","7",":","0","0"," ","P","M">>, 43,
                      "$1 dumplings, discounted cocktails"),
       HappyHourVenue(<<"S","i","l","v","e","r"," ","D","i","n","e","r">>, "Navy Yard", <<"M","o","n","-","S","u","n">>,
                      <<"3",":","0","0"," ","P","M"," ","-"," ","9",":","0","0"," ","P","M">>, 47,
                      "$4 beers, , $7 wines, $8 cocktails") >>

\* the list comprehension of load_data: the venues built, or the first
\* exception a from_dict call raises
LoadList(data) ==
    LET made == [i \in 1..Len(data) |-> from_dict(<<data[i]>>)]
        bad == {i \in 1..Len(data) : made[i].raises # "none"}
    IN  IF bad = {}
        THEN [raises |-> "none", venues |-> [i \in 1..Len(data) |-> made[i].venue]]
        ELSE [raises |-> made[CHOOSE i \in bad : \A j \in bad : i <= j].raises,
              venues |-> <<>>]

\* HappyHourTracker.load_data, on self.venues = []: what it raises (only
\* JSONDecodeError and KeyError are caught), the venues and the file it leaves,
\* and which branch ran
load_data(f, outcome) ==
    IF f.kind # "absent"
    THEN IF f.kind = "invalid"
         THEN [raises |-> "none", venues |-> <<>>, file |-> f, did |-> "recovered"]
         ELSE LET r == LoadList(f.data) IN
              CASE r.raises = "none" ->
                     [raises |-> "none", venues |-> r.venues, file |-> f, did |-> "loaded"]
                [] r.raises = "KeyError" ->
                     [raises |-> "none", venues |-> <<>>, file |-> f, did |-> "recovered"]
                [] OTHER ->
                     [raises |-> r.raises, venues |-> <<>>, file |-> f, did |-> "raised"]
    ELSE [raises |-> "none", venues |-> sample_venues,
          file |-> save_data(sample_venues, f, outcome), did |-> "seeded"]


----------------------------------------------------------------------------
(* HappyHourTracker: operations on the list of venues vs                   *)

\* a range check that leaves out the lower end
RatingInRangeOpen(rating) == 10 < rating /\ rating <= 50

\* 1.0 <= rating <= 5.0
RatingInRange(rating) == 10 <= rating /\ rating <= 50

\* a comparison that forgets lower()
SameNameExact(venue, name) == venue.name = name

\* venue.name.lower() == name.lower()
SameName(venue, name) == Lower(venue.name) = Lower(name)

\* HappyHourTracker._find_venue: the position of the venue found, 0 for None
_find_venue(vs, venue_name) ==
    IF \E i \in 1..Len(vs) : SameName(vs[i], venue_name)
    THEN CHOOSE i \in 1..Len(vs) :
            /\ SameName(vs[i], venue_name)
            /\ \A j \in 1..(i - 1) : ~SameName(vs[j], venue_name)
    ELSE 0

\* list.remove of the venue at position i
RemoveAt(vs, i) == SubSeq(vs, 1, i - 1) \o SubSeq(vs, i + 1, Len(vs))

\* HappyHourTracker.add_venue: its result, the list it leaves, whether it
\* calls save_data
add_venue(vs, name, neighborhood, happy_hour_days, happy_hour_times, rating, offers) ==
    IF \E i \in 1..Len(vs) : SameName(vs[i], name)
    THEN [ret |-> "False", venues |-> vs, saves |-> FALSE]
    ELSE IF ~RatingInRange(rating)
    THEN [ret |-> "False", venues |-> vs, saves |-> FALSE]
    ELSE [ret |-> "True",
          venues |-> Append(vs, HappyHourVenue(name, neighborhood, happy_hour_days,
                                               happy_hour_times, rating, offers)),
          saves |-> TRUE]

\* an update_rating that assigns the rating before it validates it
update_rating_unchecked(vs, venue_name, new_rating) ==
    LET venue == _find_venue(vs, venue_name) IN
    IF venue = 0
    THEN [ret |-> "False", venues |-> vs, saves |-> FALSE]
    ELSE IF ~RatingInRange(new_rating)
    THEN [ret |-> "False", venues |-> [vs EXCEPT ![venue].rating = new_rating],
          saves |-> FALSE]
    ELSE [ret |-> "True",
          venues |-> [vs EXCEPT ![venue].rating = new_rating],
          saves |-> TRUE]

\* HappyHourTracker.update_rating
update_rating(vs, venue_name, new_rating) ==
    LET venue == _find_venue(vs, venue_name) IN
    IF venue = 0
    THEN [ret |-> "False", venues |-> vs, saves |-> FALSE]
    ELSE IF ~RatingInRange(new_rating)
    THEN [ret |-> "False", venues |-> vs, saves |-> FALSE]
    ELSE [ret |-> "True",
          venues |-> [vs EXCEPT ![venue].rating = new_rating],
          saves |-> TRUE]

\* HappyHourTracker.delete_venue
delete_venue(vs, venue_name) ==
    LET venue == _find_venue(vs, venue_name) IN
    IF venue = 0
    THEN [ret |-> "False", venues |-> vs, saves |-> FALSE]
    ELSE [ret |-> "True", venues |-> RemoveAt(vs, venue), saves |-> TRUE]

\* a descending sort that puts x in front of the venues of equal rating
RECURSIVE InsertByRatingUnstable(_, _)
InsertByRatingUnstable(x, s) ==
    IF s = <<>> THEN <<x>>
    ELSE IF Head(s).rating > x.rating
         THEN <<Head(s)>> \o InsertByRatingUnstable(x, Tail(s))
         ELSE <<x>> \o s

\* sorted(.., key=lambda v: v.rating, reverse=True) puts x behind every venue
\* of the sorted list s whose rating is not smaller
RECURSIVE InsertByRating(_, _)
InsertByRating(x, s) ==
    IF s = <<>> THEN <<x>>
    ELSE IF Head(s).rating >= x.rating
         THEN <<Head(s)>> \o InsertByRating(x, Tail(s))
         ELSE <<x>> \o s

\* sorted(s, key=lambda v: v.rating, reverse=True): a stable sort
RECURSIVE SortedByRating(_)
SortedByRating(s) ==
    IF s = <<>> THEN <<>>
    ELSE InsertByRating(s[Len(s)], SortedByRating(SubSeq(s, 1, Len(s) - 1)))

\* the filter of get_venues_by_rating
RatingAtLeast(venue, min_rating) == venue.rating >= min_rating

\* HappyHourTracker.get_venues_by_rating
get_venues_by_rating(vs, min_rating) ==
    LET Keep(venue) == RatingAtLeast(venue, min_rating)
        filtered == SelectSeq(vs, Keep)
    IN  SortedByRating(filtered)

----------------------------------------------------------------------------
(* The store as a state machine                                            *)

\* store calls made in a behaviour, all runs of the program together
MaxOps == 2

\* names given to add_venue, update_rating and delete_venue
Names == { <<"c","a","s","t","a","s"," ","r","u","m"," ","b","a","r">>, <<"C","a","s","t","a","s"," ","R","u","m"," ","B","a","r">>, <<"S","i","l","v","e","r"," ","D","i","n","e","r">>, <<"Z","e","d">> }

\* ratings given to add_venue and update_rating: 0.9, 1.0, 4.7, 5.0, 5.1, 6.0
Ratings == {9, 10, 47, 50, 51, 60}

\* thresholds given to get_venues_by_rating: the default 0.0, 4.5, 4.7, 5.1
Thresholds == {0, 45, 47, 51}

\* the other fields given to add_venue
NewNeighborhood == "Downtown"
NewDays == <<"D","a","i","l","y">>
NewTimes == <<"4",":","0","0"," ","P","M"," ","-"," ","7",":","0","0"," ","P","M">>
NewOffers == "$6 wine"

\* a dictionary without its "rating" key
NoRating(d) == [k \in Keys \ {"rating"} |-> d[k]]

\* the data file when the program first runs
InitialFiles ==
    { [kind |-> "absent", data |-> <<>>],
      [kind |-> "invalid", data |-> <<>>],
      Saved(<<>>),
      Saved(sample_venues),
      Saved(<<sample_venues[4]>>),
      [kind |-> "json", data |-> <<NoRating(to_dict(sample_venues[4]))>>],
      [kind |-> "json",
       data |-> <<to_dict(sample_venues[1]), NoRating(to_dict(sample_venues[4]))>>] }

NoCall == [op |-> "none", name |-> <<>>, rating |-> 0, ret |-> "none"]

InitStore ==
    /\ phase = "new"
    /\ file \in InitialFiles
    /\ venues = <<>>
    /\ call = NoCall
    /\ listed = <<>>
    /\ ops = 0

\* HappyHourTracker.__init__, as main() calls it when the program starts
Construct ==
    /\ phase = "new"
    /\ \E outcome \in (IF file.kind = "absent" THEN WriteOutcomes ELSE {"written"}) :
       LET r == load_data(file, outcome) IN
       /\ phase' = IF r.raises = "none" THEN "ready" ELSE "crashed"
       /\ venues' = r.venues
       /\ file' = r.file
       /\ call' = [op |-> "__init__", name |-> <<>>, rating |-> 0,
                   ret |-> IF r.raises = "none" THEN r.did ELSE r.raises]
    /\ UNCHANGED <<listed, ops, venueVars>>

\* the process ends (menu choice 9, a one-shot flag, or the uncaught exception)
Exit ==
    /\ phase \in {"ready", "crashed"}
    /\ phase' = "new"
    /\ venues' = <<>>
    /\ call' = NoCall
    /\ listed' = <<>>
    /\ UNCHANGED <<file, ops, venueVars>>

\* what a call of add_venue, update_rating or delete_venue with result r does
Mutate(op, name, rating, r) ==
    /\ phase = "ready"
    /\ ops < MaxOps
    /\ venues' = r.venues
    /\ \/ ~r.saves /\ file' = file
       \/ r.saves /\ \E outcome \in WriteOutcomes :
                        file' = save_data(r.venues, file, outcome)
    /\ call' = [op |-> op, name |-> name, rating |-> rating, ret |-> r.ret]
    /\ ops' = ops + 1
    /\ UNCHANGED <<phase, listed, venueVars>>

AddVenue(name, rating) ==
    Mutate("add_venue", name, rating,
           add_venue(venues, name, NewNeighborhood, NewDays, NewTimes, rating, NewOffers))

UpdateRating(name, rating) ==
    Mutate("update_rating", name, rating, update_rating(venues, name, rating))

DeleteVenue(name) ==
    Mutate("delete_venue", name, 0, delete_venue(venues, name))

GetVenuesByRating(min_rating) ==
    /\ phase = "ready"
    /\ ops < MaxOps
    /\ listed' = get_venues_by_rating(venues, min_rating)
    /\ call' = [op |-> "get_venues_by_rating", name |-> <<>>, rating |-> min_rating,
                ret |-> "list"]
    /\ ops' = ops + 1
    /\ UNCHANGED <<phase, file, venues, venueVars>>

Next ==
    \/ Construct
    \/ Exit
    \/ \E name \in Names, rating \in Ratings : AddVenue(name, rating)
    \/ \E name \in Names, rating \in Ratings : UpdateRating(name, rating)
    \/ \E name \in Names : DeleteVenue(name)
    \/ \E min_rating \in Thresholds : GetVenuesByRating(min_rating)

Init == InitStore /\ v = NoVenue /\ res = NoRes

Spec == Init /\ [][Next]_vars

\* the caller is done with the result
Discard ==
    /\ res # NoRes
    /\ res' = NoRes
    /\ UNCHANGED <<v, storeVars>>

NextVenue ==
    \/ Discard
    \/ \E day \in 0..6 : CallIsValidDay(day)
    \/ CallParseHappyHourTimes
    \/ \E now \in Instants : CallIsOpenNow(now)

InitVenueSpec ==
    /\ InitVenue
    /\ phase = "new" /\ file = [kind |-> "absent", data |-> <<>>] /\ venues = <<>>
    /\ call = NoCall /\ listed = <<>> /\ ops = 0

SpecVenue == InitVenueSpec /\ [][NextVenue]_vars


----------------------------------------------------------------------------
(* Properties of the store, checked under Spec                             *)

Mutating == {"add_venue", "update_rating", "delete_venue"}

\* positions of the venues of vs whose name equals name ignoring case
Matches(vs, name) == {i \in 1..Len(vs) : Lower(vs[i].name) = Lower(name)}

\* C1: add_venue returns True if and only if 1.0 <= rating <= 5.0 and no
\* stored venue has the given name ignoring case; on success exactly one
\* venue with the given fields is appended behind the existing venues,
\* which keep their values and order.
C1_AddSucceedsIff ==
    [][ call'.op = "add_venue" =>
          /\ call'.ret \in {"True", "False"}
          /\ (call'.ret = "True") <=>
                (/\ 10 <= call'.rating /\ call'.rating <= 50
                 /\ Matches(venues, call'.name) = {})
          /\ call'.ret = "True" =>
                /\ Len(venues') = Len(venues) + 1
                /\ SubSeq(venues', 1, Len(venues)) = venues
                /\ venues'[Len(venues')] =
                      [name |-> call'.name, neighborhood |-> NewNeighborhood,
                       happy_hour_days |-> NewDays, happy_hour_times |-> NewTimes,
                       rating |-> call'.rating, offers |-> NewOffers]
      ]_vars

\* add_venue("Zed", .., 1.0, ..) succeeded on the seeded store
C1_Witness ==
    /\ call.op = "add_venue" /\ call.ret = "True"
    /\ call.name = <<"Z","e","d">> /\ call.rating = 10
    /\ Len(venues) = 5 /\ SubSeq(venues, 1, 4) = sample_venues

\* C2: when add_venue, update_rating or delete_venue returns False (a
\* duplicate name or a rating out of range on add, an unknown name or a
\* rating out of range on update, an unknown name on delete), the list of
\* venues and the data file are what they were before the call;
\* update_rating("Silver Diner", 6.0) on the seeded store fails and the
\* rating stays 4.7.
C2_FailureLeavesState ==
    [][ /\ (call'.op \in Mutating /\ call'.ret = "False") =>
              (venues' = venues /\ file' = file)
        /\ (/\ call'.op \in {"add_venue", "update_rating"}
            /\ ~(10 <= call'.rating /\ call'.rating <= 50)) => call'.ret = "False"
        /\ (call'.op = "add_venue" /\ Matches(venues, call'.name) # {}) =>
              call'.ret = "False"
        /\ (/\ call'.op \in {"update_rating", "delete_venue"}
            /\ Matches(venues, call'.name) = {}) => call'.ret = "False"
        /\ (/\ call'.op = "update_rating" /\ call'.name = <<"S","i","l","v","e","r"," ","D","i","n","e","r">>
            /\ call'.rating = 60 /\ venues = sample_venues) =>
              (call'.ret = "False" /\ venues'[4].rating = 47)
      ]_vars

\* update_rating("Silver Diner", 6.0) failed on the seeded, saved store
C2_Witness ==
    /\ call.op = "update_rating" /\ call.name = <<"S","i","l","v","e","r"," ","D","i","n","e","r">>
    /\ call.rating = 60 /\ call.ret = "False"
    /\ venues = sample_venues /\ file = Saved(sample_venues)

\* C3: after every add_venue, update_rating or delete_venue that returns
\* True, the content of the data file is the whole list of venues (same
\* venues, same field values, same order).
C3_FileEqualsStore ==
    (call.op \in Mutating /\ call.ret = "True") => file = Saved(venues)

\* every dictionary of the list has exactly the six keys
WellFormed(data) == \A i \in 1..Len(data) : DOMAIN data[i] = Keys

\* C4: loading a saved file into a store and saving the store again gives
\* the content of the first save: save(load(save(V))) = save(V).
C4_RoundTrip ==
    (/\ call.op = "__init__" /\ call.ret # "seeded"
     /\ file.kind = "json" /\ WellFormed(file.data)) =>
        (phase = "ready" /\ Saved(venues) = file)

\* C5: loading at construction never aborts the process: an absent file
\* seeds the four sample venues and saves them; a file with well-formed
\* content gives exactly its venues; a file with malformed content (invalid
\* JSON, or a dictionary without a required key) gives the empty list, no
\* sample venues, and the file is not rewritten.
C5_LoadNeverAborts ==
    [][ call'.op = "__init__" =>
          /\ phase' = "ready"
          /\ file.kind = "absent" =>
                (venues' = sample_venues /\ file' = Saved(sample_venues))
          /\ (file.kind = "json" /\ WellFormed(file.data)) =>
                (Saved(venues') = file /\ file' = file)
          /\ (file.kind = "invalid" \/ (file.kind = "json" /\ ~WellFormed(file.data))) =>
                (venues' = <<>> /\ file' = file)
      ]_vars

\* C6: delete_venue matches names ignoring case: when a venue matches it
\* returns True, the list gets shorter by exactly one, the matched venue is
\* gone and the others keep their values and relative order; a delete of the
\* same name (in any letter case) right after it returns False.  On the
\* seeded store delete_venue("castas rum bar") succeeds and leaves 3 venues.
C6_DeleteIgnoringCase ==
    [][ /\ call'.op = "delete_venue" =>
              /\ (call'.ret = "True") <=> (Matches(venues, call'.name) # {})
              /\ call'.ret = "True" =>
                    /\ Len(venues') = Len(venues) - 1
                    /\ \E i \in Matches(venues, call'.name) :
                          venues' = [j \in 1..(Len(venues) - 1) |->
                                        IF j < i THEN venues[j] ELSE venues[j + 1]]
                    /\ Matches(venues', call'.name) = {}
        /\ (/\ call.op = "delete_venue" /\ call.ret = "True"
            /\ call'.op = "delete_venue"
            /\ Lower(call'.name) = Lower(call.name)) => call'.ret = "False"
        /\ (/\ venues = sample_venues /\ call'.op = "delete_venue"
            /\ call'.name = <<"c","a","s","t","a","s"," ","r","u","m"," ","b","a","r">>) =>
              (call'.ret = "True" /\ Len(venues') = 3)
      ]_vars

\* delete_venue("Castas Rum Bar") failed right after
\* delete_venue("castas rum bar") succeeded on the seeded store
C6_Witness ==
    /\ call.op = "delete_venue" /\ call.name = <<"C","a","s","t","a","s"," ","R","u","m"," ","B","a","r">>
    /\ call.ret = "False" /\ ops = 2
    /\ venues = Tail(sample_venues)

\* the position in vs of the venue x
Pos(vs, x) == CHOOSE i \in 1..Len(vs) : vs[i] = x

\* C10: get_venues_by_rating(threshold) returns exactly the venues with
\* rating >= threshold, in descending order of rating, venues of equal
\* rating in their order in the store, and leaves the store unchanged; over
\* the ratings [4.5, 4.2, 4.3, 4.7] with threshold 4.5 it returns [4.7, 4.5].
C10_ListByMinRating ==
    [][ call'.op = "get_venues_by_rating" =>
          LET keep == {i \in 1..Len(venues) : venues[i].rating >= call'.rating}
              L == listed'
          IN  /\ venues' = venues /\ file' = file
              /\ Len(L) = Cardinality(keep)
              /\ \A i \in keep : \E k \in 1..Len(L) : L[k] = venues[i]
              /\ \A k \in 1..Len(L) : \E i \in keep : L[k] = venues[i]
              /\ \A k, l \in 1..Len(L) : k < l =>
                    \/ L[k].rating > L[l].rating
                    \/ /\ L[k].rating = L[l].rating
                       /\ Pos(venues, L[k]) < Pos(venues, L[l])
              /\ (/\ [i \in 1..Len(venues) |-> venues[i].rating] = <<45, 42, 43, 47>>
                  /\ call'.rating = 45) =>
                    [k \in 1..Len(L) |-> L[k].rating] = <<47, 45>>
      ]_vars

\* get_venues_by_rating(4.7) returned two venues of rating 4.7 in store order
C10_Witness ==
    /\ call.op = "get_venues_by_rating" /\ call.rating = 47
    /\ Len(listed) = 2 /\ listed[1].rating = 47 /\ listed[2].rating = 47
    /\ listed[1] = venues[1] /\ listed[2] = venues[4]

----------------------------------------------------------------------------
(* Properties of the venue predicate, checked under SpecVenue              *)

\* C7: is_open_now never raises and fails closed: it returns True exactly
\* when the day rule matches the weekday, the time-range text yields a start
\* and an end time, and start <= current time <= end (both ends included);
\* in every other case, a time-range text with an out-of-range hour or
\* minute included, it returns False.
C7_OpenNowFailsClosed ==
    res.fn = "is_open_now" =>
        LET m == ReSearch(v.happy_hour_times)
            g == m.groups
            sh == To24Hour(IntOf(g[1]), Upper(g[3]))
            eh == To24Hour(IntOf(g[4]), Upper(g[6]))
            valid == /\ m.ok
                     /\ sh \in 0..23 /\ IntOf(g[2]) \in 0..59
                     /\ eh \in 0..23 /\ IntOf(g[5]) \in 0..59
        IN  res.ret = Bool(/\ _is_valid_day(v, res.day) = "True"
                           /\ valid
                           /\ TimeLeq(<<sh, IntOf(g[2]), 0>>, res.time)
                           /\ TimeLeq(res.time, <<eh, IntOf(g[5]), 0>>))

\* the abbreviation of a weekday, Monday = 0
Abbreviation(day) == <<<<"m","o","n">>, <<"t","u","e">>, <<"w","e","d">>, <<"t","h","u">>, <<"f","r","i">>, <<"s","a","t">>, <<"s","u","n">>>>[day + 1]

\* C8: the day rules are checked in a fixed order and the first rule whose
\* pattern occurs decides alone: "mon-fri" / "monday-friday" is active on
\* weekdays 0..4; else "daily" / "every day" is always active; else
\* "weekend" is active on 5 and 6; else the text is active iff it contains
\* the abbreviation of the weekday.  "Mon-Fri, Sat" is active on 0..4 only.
C8_DayRuleOrder ==
    res.fn = "_is_valid_day" =>
        LET t == Lower(v.happy_hour_days)
            Has(sub) == \E i \in 1..Len(t) :
                            /\ i + Len(sub) - 1 <= Len(t)
                            /\ \A k \in 1..Len(sub) : t[i + k - 1] = sub[k]
            active ==
                IF Has(<<"m","o","n","-","f","r","i">>) \/ Has(<<"m","o","n","d","a","y","-","f","r","i","d","a","y">>) THEN res.day \in 0..4
                ELSE IF Has(<<"d","a","i","l","y">>) \/ Has(<<"e","v","e","r","y"," ","d","a","y">>) THEN TRUE
                ELSE IF Has(<<"w","e","e","k","e","n","d">>) THEN res.day \in {5, 6}
                ELSE Has(Abbreviation(res.day))
        IN  /\ res.ret = (IF active THEN "True" ELSE "False")
            /\ v.happy_hour_days = <<"M","o","n","-","F","r","i",","," ","S","a","t">> =>
                  ((res.ret = "True") <=> (res.day \in 0..4))

\* "Mon-Fri, Sat" was found not active on Saturday
C8_Witness ==
    /\ res.fn = "_is_valid_day" /\ v.happy_hour_days = <<"M","o","n","-","F","r","i",","," ","S","a","t">>
    /\ res.day = 5 /\ res.ret = "False"

\* the claim's conversion of an hour of the 12-hour clock
Hour24(hour, period) ==
    CASE period = <<"A","M">> /\ hour = 12 -> 0
      [] period = <<"P","M">> /\ hour # 12 -> hour + 12
      [] OTHER -> hour

====
